---------------------------- MODULE Spec2Model ----------------------------
(***************************************************************************)
(* A model of dxmasterlv/client_mac_search.                                *)
(*                                                                         *)
(*   src/config_backup.py  the config-backup batch (main and its helpers)  *)
(*   src/test.py           the WLC client inventory (main and its helpers) *)
(*                                                                         *)
(* Three specifications share the module:                                  *)
(*   Spec          the config-backup batch, run once and then run again    *)
(*                 against the address list the first run left behind;     *)
(*   SpecClassify  the decision part of get_device_type applied to         *)
(*                 bounded prompts and discovery outputs;                  *)
(*   SpecInv       the inventory variant's main.                           *)
(*                                                                         *)
(* Texts are modelled at the granularity the code inspects them:           *)
(*   - a line of the address list is [pad, body]: body is the sequence of  *)
(*     dotted fields of the line, pad says whether white space surrounds   *)
(*     it (str.strip removes it);                                          *)
(*   - a prompt is a sequence of characters;                               *)
(*   - a field of the parsed 'show version' record is a set of words, and  *)
(*     "s in text" is the occurrence of the word s in the lowered text.    *)
(* The external libraries (netmiko, paramiko, the file system) are the     *)
(* environment: each call either returns a value drawn from a bounded set  *)
(* or raises.                                                              *)
(***************************************************************************)
EXTENDS Integers, Sequences, FiniteSets, TLC

VARIABLES
    \* ---- config_backup.py: files and environment
    ipFile,          \* ip_list.txt: a sequence of lines
    failedFile,      \* failed_connections.txt: a sequence of lines (append-only)
    outDirExists,    \* whether the directory 'configs' exists
    cfgFiles,        \* files written under 'configs': a set of <<ip, text>>
    log,             \* lines this process wrote to network_backup.log
    connLog,         \* every ConnectHandler(...) of this process, in order
    \* ---- config_backup.py: main's locals
    pc,              \* position in main
    ip_list,
    idx,             \* position of the for loop in ip_list (1-based)
    successful_ips,
    device_type,
    config,
    \* ---- history of the batch
    run,             \* "first" or "second" run of the batch
    failMark,        \* Len(failedFile) when the current run started
    outcome,         \* outcome[i]: what happened to ip_list[i] in this run
    succ1,           \* successful_ips at the end of the first run
    rewritten1,      \* whether the first run rewrote ip_list.txt
    \* ---- get_device_type's decision, applied as a function
    cPrompt,         \* what find_prompt returned
    cOutput,         \* what 'show version' returns
    cCmds,           \* the commands sent on the session
    cResult,         \* what get_device_type returned
    cPc,
    \* ---- test.py: the inventory variant
    iPc,             \* position in main
    ssh,             \* "unbound", "open" or "closed"
    closes,          \* the number of ssh.close() calls
    shells,          \* one entry per invoke_shell(): the commands sent on it
    ap_prefix,
    ap_names,
    apIdx,           \* position of the loop over ap_names (1-based)
    mac_ap_pairs,
    macIdx,          \* position of the loop over mac_ap_pairs (1-based)
    client_data,
    csvFile,         \* wlc_clients.csv: None (absent) or its rows
    printed,         \* what main printed, in order
    observed,        \* history: every pair get_clients_for_ap returned, in order
    \* ---- test.py: the three parsers, applied as functions
    pFn,             \* which parser is called
    pOutput,         \* the command output it is given
    pArg,            \* its second argument: the prefix or the AP name
    pResult,         \* what it returned or raised
    pPc

batchVars == <<ipFile, failedFile, outDirExists, cfgFiles, log, connLog, pc,
               ip_list, idx, successful_ips, device_type, config, run,
               failMark, outcome, succ1, rewritten1>>
classifyVars == <<cPrompt, cOutput, cCmds, cResult, cPc>>
invVars == <<iPc, ssh, closes, shells, ap_prefix, ap_names, apIdx, mac_ap_pairs,
             macIdx, client_data, csvFile, printed, observed>>
parseVars == <<pFn, pOutput, pArg, pResult, pPc>>
vars == <<batchVars, classifyVars, invVars, parseVars>>

-----------------------------------------------------------------------------
(* Bounds *)

\* the longest command output (in lines) a parser is applied to
MaxTextLines == 2

\* the longest address list (in lines) a run starts from
MaxLines == 2

-----------------------------------------------------------------------------
(* Values *)

None == "None"

A1 == <<10, 0, 0, 1>>
A2 == <<10, 0, 0, 2>>
BadIp == <<999, 999, 999, 999>>

Line(p, b) == [pad |-> p, body |-> b]

\* the lines an address list is made of: addresses, an address with white
\* space around it, an entry that is no address, an empty line and a line of
\* white space
InputLines ==
    {Line(FALSE, A1), Line(TRUE, A2), Line(FALSE, BadIp), Line(FALSE, <<>>),
     Line(TRUE, <<>>)}

RECURSIVE SeqsUpTo(_, _)
SeqsUpTo(S, n) ==
    IF n = 0 THEN {<<>>}
    ELSE LET shorter == SeqsUpTo(S, n - 1)
         IN  shorter \cup {Append(s, x) : s \in {t \in shorter : Len(t) = n - 1}, x \in S}

Range(s) == {s[i] : i \in DOMAIN s}

-----------------------------------------------------------------------------
(* config_backup.py: helpers *)

\* line.strip()
Strip(line) == line.body

\* [line.strip() for line in f if line.strip()]
RECURSIVE StripNonEmpty(_)
StripNonEmpty(lines) ==
    IF lines = <<>> THEN <<>>
    ELSE LET rest == StripNonEmpty(Tail(lines))
         IN  IF Strip(Head(lines)) # <<>>
             THEN <<Strip(Head(lines))>> \o rest
             ELSE rest

\* read_ip_list: the stripped non-empty lines, or [] with an error logged when
\* the file cannot be opened or read
read_ip_list(file, readable) == IF readable THEN StripNonEmpty(file) ELSE <<>>

\* ipaddress.ip_address(ip) accepts a dotted quad whose four fields are each
\* in 0..255 (IPv6 literals are not among the modelled entries)
validate_ip_mut(ip) == Len(ip) = 4
validate_ip(ip) == Len(ip) = 4 /\ \A i \in 1..4 : ip[i] \in 0..255

LogLine(level, what, ip) == <<level, what, ip>>

\* write_failed_connection: the file after the call (ok: open and write
\* succeeded) ...
write_failed_file(file, ip, ok) == IF ok THEN Append(file, ip) ELSE file
\* ... and the process log after it
write_failed_log(lg, ip, ok) ==
    Append(lg, IF ok THEN LogLine("INFO", "logged failed connection", ip)
                     ELSE LogLine("ERROR", "failed to write failed file", ip))

\* update_ip_list: open(file_path, 'w') truncates, then one line per
\* successful ip is written; res is "ok", "open_error" (the file is left as
\* it was) or "write_error" (a write or the close raised: only the first k
\* lines reached the file)
update_ip_file_keep(file, ips, res, k) == file
update_ip_file_mut(file, ips, res, k) ==
    CASE res = "ok" -> [i \in 1..Len(ips) |-> Line(FALSE, ips[Len(ips) + 1 - i])]
      [] res = "open_error" -> file
      [] OTHER -> [i \in 1..k |-> Line(FALSE, ips[i])]
update_ip_file(file, ips, res, k) ==
    CASE res = "ok" -> [i \in 1..Len(ips) |-> Line(FALSE, ips[i])]
      [] res = "open_error" -> file
      [] OTHER -> [i \in 1..k |-> Line(FALSE, ips[i])]


-----------------------------------------------------------------------------
(* config_backup.py: get_device_type's decision (lines 65-81) *)

\* prompts find_prompt() may return
Prompts ==
    {<<"s", "w", "#">>, <<"s", "w", ">">>, <<"#", "s", "w">>, <<"s", "w">>,
     <<"l", "o", "g", "i", "n", ":">>, <<>>}

\* words a field of the parsed 'show version' record, or the raw text, is
\* made of
Words ==
    {"Nexus", "NX-OS", "WLC", "AireOS", "Fibre Channel", "MDS", "Juniper",
     "JUNOS", "C2960"}

\* the most words a modelled text holds
MaxWords == 2

Texts == {t \in SUBSET Words : Cardinality(t) <= MaxWords}

\* str.lower() on a word
LowerWord(w) ==
    CASE w = "Nexus" -> "nexus"
      [] w = "NX-OS" -> "nx-os"
      [] w = "WLC" -> "wlc"
      [] w = "AireOS" -> "aireos"
      [] w = "Fibre Channel" -> "fibre channel"
      [] w = "MDS" -> "mds"
      [] w = "Juniper" -> "juniper"
      [] w = "JUNOS" -> "junos"
      [] w = "C2960" -> "c2960"
      [] OTHER -> w

\* str.lower() on a text
Lower(text) == {LowerWord(w) : w \in text}

\* send_command('show version', use_textfsm=True) returns the parsed records
\* (a list of dicts) when a template matched and the raw text (a str)
\* otherwise
StrOut(t) == [shape |-> "str", text |-> t, recs |-> <<>>]
ListOut(rs) == [shape |-> "list", text |-> {}, recs |-> rs]
Rec(v, h) == [version |-> v, hardware |-> h]

Outputs ==
    {StrOut(t) : t \in Texts} \cup {ListOut(<<>>)}
        \cup {ListOut(<<Rec(v, h)>>) : v \in Texts, h \in Texts}

\* the outputs the batch draws from: raw text, an empty list, and a record
\* for a wireless controller and for a device with no signature
BatchOutputs ==
    {StrOut({"Nexus"}), ListOut(<<>>), ListOut(<<Rec({"AireOS"}, {})>>),
     ListOut(<<Rec({}, {"C2960"})>>)}

\* '>' in prompt or '#' in prompt
shell_prompt(prompt) == \E i \in DOMAIN prompt : prompt[i] \in {">", "#"}

\* output and isinstance(output, list) and len(output) > 0
parsed_output(output) == output.shape = "list" /\ Len(output.recs) > 0

\* lines 69-81: the if/elif chain on output[0]
classify_record(rec) ==
    LET version == Lower(rec.version)
        platform == Lower(rec.hardware)
    IN  IF "nexus" \in platform \/ "nx-os" \in version THEN "cisco_nxos"
        ELSE IF "wlc" \in platform \/ "aireos" \in version THEN "cisco_wlc"
        ELSE IF "fibre channel" \in platform \/ "mds" \in platform THEN "cisco_mds"
        ELSE IF "juniper" \in platform \/ "junos" \in version THEN "juniper_junos"
        ELSE "cisco_ios"

\* lines 68-81: what get_device_type returns for the output of 'show version';
\* falling off the end of the function returns None
classify_output(output) ==
    IF parsed_output(output) THEN classify_record(output.recs[1]) ELSE None

\* lines 65-81: what get_device_type returns once the session is open and
\* neither call raises
device_type_of(prompt, output) ==
    IF shell_prompt(prompt) THEN classify_output(output) ELSE None

\* get_config's config_commands table
config_commands ==
    [t \in {"cisco_ios", "cisco_nxos", "cisco_wlc", "cisco_mds", "juniper_junos"} |->
        CASE t = "cisco_wlc" -> "show run-config commands"
          [] t = "juniper_junos" -> "show configuration | display set"
          [] OTHER -> "show running-config"]

\* what send_command(config command) may return: nothing or a configuration
Configs == {"", "hostname sw"}

-----------------------------------------------------------------------------
(* Sessions: connLog holds one record per ConnectHandler(...) call *)

Attempt(ip, kind, st) == [ip |-> ip, kind |-> kind, state |-> st, cmds |-> <<>>]

\* ConnectHandler(**device) raised: no session exists
connect_failed(cl, ip, kind) == Append(cl, Attempt(ip, kind, "refused"))
\* ConnectHandler(**device) returned: 'with ... as conn' holds the session
connect_ok(cl, ip, kind) == Append(cl, Attempt(ip, kind, "open"))
\* conn.send_command(cmd), issued while processing address ip
send_command(cl, cmd, ip) ==
    [cl EXCEPT ![Len(cl)].cmds = Append(@, <<cmd, ip>>)]
\* leaving the with block, normally or by an exception, disconnects
with_exit_mut(cl) == cl
with_exit(cl) == [cl EXCEPT ![Len(cl)].state = "closed"]

OpenSessions == {i \in DOMAIN connLog : connLog[i].state = "open"}

-----------------------------------------------------------------------------
(* config_backup.py: main, one action per step *)

CurIp == ip_list[idx]

Finished == pc \in {"returned", "done", "crashed"}

\* a loop that tries an address again after an error of the transport
NextAddress_mut(what) ==
    /\ idx' = IF what \in {"classify_error", "retrieve_error"} THEN idx ELSE idx + 1
    /\ outcome' = [outcome EXCEPT ![idx] = what]
    /\ pc' = "loop"

\* a test that takes every configuration for a configuration
truthy_mut(v) == TRUE

\* 'if config:', line 163: neither None nor the empty string
truthy(v) == v # None /\ v # ""

\* 'continue', or the end of the loop body: the next address
NextAddress(what) ==
    /\ idx' = idx + 1
    /\ outcome' = [outcome EXCEPT ![idx] = what]
    /\ pc' = "loop"

\* the except clauses of get_device_type (82-85) and get_config (111-114):
\* the error is logged, write_failed_connection is called and None returned;
\* main then skips to the next address (158-159, 163)
ExceptAndContinue(cl, msg, what) ==
    \E wok \in BOOLEAN :
        /\ connLog' = cl
        /\ log' = write_failed_log(Append(log, LogLine("ERROR", msg, CurIp)), CurIp, wok)
        /\ failedFile' = write_failed_file(failedFile, CurIp, wok)
        /\ NextAddress(what)

\* a main that goes on with an empty list
no_entries_mut(lst) == FALSE

\* 'if not ip_list:', line 143
no_entries(lst) == lst = <<>>

\* lines 141-147
ReadIpList ==
    /\ pc = "start"
    /\ \E readable \in BOOLEAN :
         LET lst == read_ip_list(ipFile, readable)
             lg == IF readable THEN log
                   ELSE Append(log, LogLine("ERROR", "failed to read ip list", <<>>))
         IN  /\ ip_list' = lst
             /\ outcome' = [i \in 1..Len(lst) |-> "pending"]
             /\ IF no_entries(lst)
                THEN /\ log' = Append(lg, LogLine("ERROR", "no valid ip addresses", <<>>))
                     /\ pc' = "returned"
                ELSE /\ log' = lg
                     /\ pc' = "loop"
    /\ successful_ips' = <<>>
    /\ idx' = 1
    /\ UNCHANGED <<ipFile, failedFile, outDirExists, cfgFiles, connLog,
                   device_type, config, run, failMark, succ1, rewritten1>>
    /\ UNCHANGED <<classifyVars, invVars, parseVars>>

\* lines 149-154: the loop head and the validation of the entry
LoopStep ==
    /\ pc = "loop"
    /\ \/ /\ idx > Len(ip_list)
          /\ pc' = "update"
          /\ UNCHANGED <<log, failedFile, idx, outcome>>
       \/ /\ idx <= Len(ip_list)
          /\ ~validate_ip(CurIp)
          /\ \E wok \in BOOLEAN :
               /\ log' = write_failed_log(
                            Append(log, LogLine("ERROR", "invalid ip address", CurIp)),
                            CurIp, wok)
               /\ failedFile' = write_failed_file(failedFile, CurIp, wok)
          /\ NextAddress("invalid")
       \/ /\ idx <= Len(ip_list)
          /\ validate_ip(CurIp)
          /\ log' = Append(log, LogLine("INFO", "processing device", CurIp))
          /\ pc' = "gdt_connect"
          /\ UNCHANGED <<failedFile, idx, outcome>>
    /\ UNCHANGED <<ipFile, outDirExists, cfgFiles, connLog, ip_list,
                   successful_ips, device_type, config, run, failMark, succ1,
                   rewritten1>>
    /\ UNCHANGED <<classifyVars, invVars, parseVars>>

\* line 63: ConnectHandler(device_type='autodetect', ...)
GdtConnect ==
    /\ pc = "gdt_connect"
    /\ \/ /\ connLog' = connect_ok(connLog, CurIp, "autodetect")
          /\ pc' = "gdt_prompt"
          /\ UNCHANGED <<log, failedFile, idx, outcome, device_type>>
       \/ /\ ExceptAndContinue(connect_failed(connLog, CurIp, "autodetect"),
                               "failed to detect device type", "classify_error")
          /\ device_type' = None
    /\ UNCHANGED <<ipFile, outDirExists, cfgFiles, ip_list, successful_ips,
                   config, run, failMark, succ1, rewritten1>>
    /\ UNCHANGED <<classifyVars, invVars, parseVars>>

\* lines 65-66: find_prompt and the test of the prompt
GdtPrompt ==
    /\ pc = "gdt_prompt"
    /\ \/ \E prompt \in Prompts :
            IF shell_prompt(prompt)
            THEN /\ pc' = "gdt_send"
                 /\ UNCHANGED <<connLog, log, failedFile, idx, outcome, device_type>>
            ELSE \* the function falls off its end: None, nothing recorded
                 /\ connLog' = with_exit(connLog)
                 /\ device_type' = None
                 /\ NextAddress("classify_none")
                 /\ UNCHANGED <<log, failedFile>>
       \/ /\ ExceptAndContinue(with_exit(connLog), "failed to detect device type",
                               "classify_error")
          /\ device_type' = None
    /\ UNCHANGED <<ipFile, outDirExists, cfgFiles, ip_list, successful_ips,
                   config, run, failMark, succ1, rewritten1>>
    /\ UNCHANGED <<classifyVars, invVars, parseVars>>

\* lines 67-81 and 157-159: 'show version' and the classification
GdtSend ==
    /\ pc = "gdt_send"
    /\ \/ \E output \in BatchOutputs :
            LET dt == classify_output(output)
            IN  /\ connLog' = with_exit(send_command(connLog, "show version", CurIp))
                /\ device_type' = dt
                /\ IF dt = None
                   THEN NextAddress("classify_none")
                   ELSE /\ pc' = "gc_connect"
                        /\ UNCHANGED <<idx, outcome>>
                /\ UNCHANGED <<log, failedFile>>
       \/ /\ ExceptAndContinue(with_exit(send_command(connLog, "show version", CurIp)),
                               "failed to detect device type", "classify_error")
          /\ device_type' = None
    /\ UNCHANGED <<ipFile, outDirExists, cfgFiles, ip_list, successful_ips,
                   config, run, failMark, succ1, rewritten1>>
    /\ UNCHANGED <<classifyVars, invVars, parseVars>>

\* lines 107-108: ConnectHandler(device_type=device_type, ...)
GcConnect ==
    /\ pc = "gc_connect"
    /\ \/ /\ connLog' = connect_ok(connLog, CurIp, device_type)
          /\ log' = Append(log, LogLine("INFO", "connected", CurIp))
          /\ pc' = "gc_send"
          /\ UNCHANGED <<failedFile, idx, outcome, config>>
       \/ /\ ExceptAndContinue(connect_failed(connLog, CurIp, device_type),
                               "failed to retrieve config", "retrieve_error")
          /\ config' = None
    /\ UNCHANGED <<ipFile, outDirExists, cfgFiles, ip_list, successful_ips,
                   device_type, run, failMark, succ1, rewritten1>>
    /\ UNCHANGED <<classifyVars, invVars, parseVars>>

\* lines 109-110 and 162-163: the config command and its output
GcSend ==
    /\ pc = "gc_send"
    /\ \/ /\ device_type \in DOMAIN config_commands
          /\ \E cfg \in Configs :
               /\ connLog' = with_exit(
                                send_command(connLog, config_commands[device_type], CurIp))
               /\ config' = cfg
               /\ IF ~truthy(cfg)
                  THEN NextAddress("empty_config")
                  ELSE /\ pc' = "save"
                       /\ UNCHANGED <<idx, outcome>>
               /\ UNCHANGED <<log, failedFile>>
       \/ /\ ExceptAndContinue(
                IF device_type \in DOMAIN config_commands
                THEN with_exit(send_command(connLog, config_commands[device_type], CurIp))
                ELSE with_exit(connLog),   \* KeyError before anything is sent
                "failed to retrieve config", "retrieve_error")
          /\ config' = None
    /\ UNCHANGED <<ipFile, outDirExists, cfgFiles, ip_list, successful_ips,
                   device_type, run, failMark, succ1, rewritten1>>
    /\ UNCHANGED <<classifyVars, invVars, parseVars>>

\* lines 116-131 and 165-166: save_config and the append to successful_ips
SaveConfig ==
    /\ pc = "save"
    /\ \/ \* os.makedirs raises outside any try: the exception leaves main
          /\ ~outDirExists
          /\ pc' = "crashed"
          /\ outcome' = [outcome EXCEPT ![idx] = "crash"]
          /\ UNCHANGED <<outDirExists, cfgFiles, log, successful_ips, idx>>
       \/ \* the file is written
          /\ outDirExists' = TRUE
          /\ cfgFiles' = cfgFiles \cup {<<CurIp, config>>}
          /\ log' = Append(log, LogLine("INFO", "configuration saved", CurIp))
          /\ successful_ips' = Append(successful_ips, CurIp)
          /\ NextAddress("success")
       \/ \* open or write raises: save_config returns False
          /\ outDirExists' = TRUE
          /\ log' = Append(log, LogLine("ERROR", "failed to save config", CurIp))
          /\ NextAddress("save_failed")
          /\ UNCHANGED <<cfgFiles, successful_ips>>
    /\ UNCHANGED <<ipFile, failedFile, connLog, ip_list, device_type, config,
                   run, failMark, succ1, rewritten1>>
    /\ UNCHANGED <<classifyVars, invVars, parseVars>>

\* line 169: update_ip_list(ip_file, successful_ips)
UpdateIpList ==
    /\ pc = "update"
    /\ \E res \in {"ok", "open_error", "write_error"} :
       \E k \in 0..Len(successful_ips) :
         /\ res = "write_error" => k < Len(successful_ips)
         /\ res # "write_error" => k = 0
         /\ ipFile' = update_ip_file(ipFile, successful_ips, res, k)
         /\ log' = Append(log, IF res = "ok"
                               THEN LogLine("INFO", "updated ip list", <<>>)
                               ELSE LogLine("ERROR", "failed to update ip list", <<>>))
         /\ rewritten1' = IF run = "first" THEN res = "ok" ELSE rewritten1
    /\ pc' = "done"
    /\ UNCHANGED <<failedFile, outDirExists, cfgFiles, connLog, ip_list, idx,
                   successful_ips, device_type, config, run, failMark, outcome,
                   succ1>>
    /\ UNCHANGED <<classifyVars, invVars, parseVars>>

\* the batch is started again on the address list the first run rewrote
SecondRun ==
    /\ pc = "done"
    /\ rewritten1
    /\ run = "first"
    /\ run' = "second"
    /\ succ1' = successful_ips
    /\ failMark' = Len(failedFile)
    /\ pc' = "start"
    /\ log' = <<>>
    /\ connLog' = <<>>
    /\ ip_list' = <<>>
    /\ idx' = 1
    /\ successful_ips' = <<>>
    /\ device_type' = None
    /\ config' = None
    /\ outcome' = <<>>
    /\ UNCHANGED <<ipFile, failedFile, outDirExists, cfgFiles, rewritten1>>
    /\ UNCHANGED <<classifyVars, invVars, parseVars>>

BatchInit ==
    /\ ipFile \in SeqsUpTo(InputLines, MaxLines)
    /\ failedFile = <<>>
    /\ outDirExists \in BOOLEAN
    /\ cfgFiles = {}
    /\ log = <<>>
    /\ connLog = <<>>
    /\ pc = "start"
    /\ ip_list = <<>>
    /\ idx = 1
    /\ successful_ips = <<>>
    /\ device_type = None
    /\ config = None
    /\ run = "first"
    /\ failMark = 0
    /\ outcome = <<>>
    /\ succ1 = <<>>
    /\ rewritten1 = FALSE

\* the batch is not running
BatchIdle ==
    /\ ipFile = <<>>
    /\ failedFile = <<>>
    /\ outDirExists = FALSE
    /\ cfgFiles = {}
    /\ log = <<>>
    /\ connLog = <<>>
    /\ pc = "idle"
    /\ ip_list = <<>>
    /\ idx = 1
    /\ successful_ips = <<>>
    /\ device_type = None
    /\ config = None
    /\ run = "first"
    /\ failMark = 0
    /\ outcome = <<>>
    /\ succ1 = <<>>
    /\ rewritten1 = FALSE

-----------------------------------------------------------------------------
(* get_device_type's decision applied to a prompt and a discovery output *)

ClassifyIdle ==
    /\ cPrompt = <<>>
    /\ cOutput = ListOut(<<>>)
    /\ cCmds = <<>>
    /\ cResult = None
    /\ cPc = "idle"

ClassifyInit ==
    /\ cPrompt \in Prompts
    /\ cOutput \in Outputs
    /\ cCmds = <<>>
    /\ cResult = None
    /\ cPc = "call"

\* lines 65-81 on an open session whose calls do not raise
ClassifyCall ==
    /\ cPc = "call"
    /\ cCmds' = IF shell_prompt(cPrompt) THEN <<"show version">> ELSE <<>>
    /\ cResult' = device_type_of(cPrompt, cOutput)
    /\ cPc' = "returned"
    /\ UNCHANGED <<cPrompt, cOutput, batchVars, invVars, parseVars>>

-----------------------------------------------------------------------------
(* test.py: texts *)

\* a word is a sequence of segments, a line [lead, toks] is a sequence of
\* tokens with or without leading white space, an output a sequence of lines
Word(segs) == [k |-> "w", s |-> segs]
Mac(m) == [k |-> "mac", s |-> <<m>>]
Ip(a) == [k |-> "ip", s |-> <<a>>]
Txt(lead, toks) == [lead |-> lead, toks |-> toks]

AP_PREFIX == <<"BB4E", "_", "FL4">>
AP1 == <<"BB4E", "_", "FL4", "_AP1">>
AP2 == <<"BB4E", "_", "FL4", "_AP2">>
AP3 == <<"BB4E", "_", "FL5", "_AP1">>
AP4 == <<"BB4E", "x", "FL4", "_AP1">>
\* the segments that are one character long
OneChar == {"_", "x"}
\* the regular expression BB4E.FL4
DotPrefix == <<"BB4E", ".", "FL4">>
Mac1 == "00:11:22:33:44:55"
Mac2 == "66:77:88:99:aa:bb"
IpMarker == Word(<<"IP Address">>)
Unknown == "Unknown"

HeaderLine == Txt(FALSE, <<Word(<<"AP">>), Word(<<"Name">>)>>)
ApLine(lead, ap) == Txt(lead, <<Word(ap), Word(<<"2">>), Word(<<"AIR-CAP">>)>>)

\* the prefixes main is called with: the default and a command-line argument
Prefixes == {AP_PREFIX, <<"BB4E">>, DotPrefix, <<>>}

\* what 'show ap summary' may return
ApSummaryOutputs ==
    {<<>>,
     <<HeaderLine, Txt(FALSE, <<Word(<<"Other">>), Word(<<"AP">>)>>)>>,
     <<HeaderLine, ApLine(FALSE, AP1), ApLine(TRUE, AP2)>>,
     <<ApLine(FALSE, AP3), Txt(FALSE, <<>>), ApLine(FALSE, AP1)>>,
     <<ApLine(FALSE, AP4)>>}

\* what 'show client ap 802.11a <ap>' may return
ClientListOutputs ==
    {<<>>,
     <<Txt(FALSE, <<Word(<<"MAC">>), Word(<<"Address">>)>>)>>,
     <<Txt(FALSE, <<Mac(Mac1), Word(<<"Associated">>)>>)>>,
     <<Txt(FALSE, <<Mac(Mac1), Mac(Mac2)>>), HeaderLine,
       Txt(TRUE, <<Word(<<"client">>), Mac(Mac1)>>)>>}

\* what 'show client detail <mac>' may return
ClientDetailOutputs ==
    {<<>>,
     <<Txt(FALSE, <<Word(<<"Foo">>), Ip("10.0.0.1")>>)>>,
     <<Txt(FALSE, <<Word(<<"Foo">>)>>),
       Txt(FALSE, <<IpMarker, Ip("10.0.0.5"), Word(<<"Status">>), Ip("10.0.0.6")>>),
       Txt(FALSE, <<IpMarker, Ip("10.0.0.9")>>)>>,
     <<Txt(FALSE, <<IpMarker, Word(<<"none">>)>>),
       Txt(FALSE, <<IpMarker, Ip("10.0.0.9")>>)>>}

-----------------------------------------------------------------------------
(* test.py: helpers *)

StartsWith(w, pre) == Len(pre) <= Len(w) /\ SubSeq(w, 1, Len(pre)) = pre

\* a segment of the pattern against a segment of the text: the pattern is a
\* regular expression, in which "." stands for any one character
seg_match(p, s) == p = s \/ (p = "." /\ s \in OneChar)

\* re.match(pattern, text): the pattern matches at the start of the text
re_match(w, pre) ==
    /\ Len(pre) <= Len(w)
    /\ \A i \in DOMAIN pre : seg_match(pre[i], w[i])

\* re.match(ap_prefix, line.strip()), line 39: the empty pattern matches
\* every line, the blank ones included
prefix_match(line, prefix) ==
    \/ prefix = <<>>
    \/ line.toks # <<>> /\ re_match(line.toks[1].s, prefix)

IndexError == "IndexError"

\* the loop of get_ap_names, lines 38-41, over lines that have a token
RECURSIVE ap_names_of(_, _)
ap_names_of(output, prefix) ==
    IF output = <<>> THEN <<>>
    ELSE LET line == Head(output)
             rest == ap_names_of(Tail(output), prefix)
         IN  IF prefix_match(line, prefix) THEN <<line.toks[1].s>> \o rest ELSE rest

\* get_ap_names, lines 36-42: line.split()[0] raises IndexError on a matching
\* line that has no token
parse_ap_names(output, prefix) ==
    IF \E i \in DOMAIN output :
          prefix_match(output[i], prefix) /\ output[i].toks = <<>>
    THEN IndexError
    ELSE ap_names_of(output, prefix)

\* re.search(<mac pattern>, line): the first match on the line, or None
first_of_kind(line, kind) ==
    IF \E i \in DOMAIN line.toks : line.toks[i].k = kind
    THEN LET i == CHOOSE i \in DOMAIN line.toks :
                     /\ line.toks[i].k = kind
                     /\ \A j \in 1..(i - 1) : line.toks[j].k # kind
         IN  line.toks[i].s[1]
    ELSE None

\* get_clients_for_ap with re.search taking the last match of a line
RECURSIVE parse_client_macs_mut(_, _)
parse_client_macs_mut(output, ap_name) ==
    IF output = <<>> THEN <<>>
    ELSE LET toks == Head(output).toks
             m == first_of_kind(
                      [toks |-> [i \in DOMAIN toks |-> toks[Len(toks) + 1 - i]]], "mac")
             rest == parse_client_macs_mut(Tail(output), ap_name)
         IN  IF m # None THEN <<<<m, ap_name>>>> \o rest ELSE rest

\* get_clients_for_ap, lines 48-54
RECURSIVE parse_client_macs(_, _)
parse_client_macs(output, ap_name) ==
    IF output = <<>> THEN <<>>
    ELSE LET m == first_of_kind(Head(output), "mac")
             rest == parse_client_macs(Tail(output), ap_name)
         IN  IF m # None THEN <<<<m, ap_name>>>> \o rest ELSE rest

\* "IP Address" in line
has_ip_marker(line) == \E i \in DOMAIN line.toks : line.toks[i] = IpMarker

\* get_client_details without the break of line 66: a marker line with no
\* address passes the search on to the next marker line
RECURSIVE parse_client_ip_mut(_)
parse_client_ip_mut(output) ==
    IF output = <<>> THEN Unknown
    ELSE LET m == first_of_kind(Head(output), "ip")
         IN  IF has_ip_marker(Head(output)) /\ m # None
             THEN m
             ELSE parse_client_ip_mut(Tail(output))

\* get_client_details, lines 60-67
RECURSIVE parse_client_ip(_)
parse_client_ip(output) ==
    IF output = <<>> THEN Unknown
    ELSE IF has_ip_marker(Head(output))
         THEN LET m == first_of_kind(Head(output), "ip")
              IN  IF m # None THEN m ELSE Unknown
         ELSE parse_client_ip(Tail(output))

\* run_command, lines 23-26: every call opens a shell channel of its own with
\* invoke_shell() and sends the command on it; r says which call, if any,
\* raised
RunResults == {"ok", "invoke_raises", "send_raises", "recv_raises"}
run_command(sh, command, r) ==
    CASE r = "invoke_raises" -> sh
      [] r = "send_raises" -> Append(sh, <<>>)
      [] OTHER -> Append(sh, <<command>>)

PagingCmd == <<"config paging disable">>
ApSummaryCmd == <<"show ap summary">>
ClientListCmd(ap) == <<"show client ap 802.11a", ap>>
ClientDetailCmd(mac) == <<"show client detail", mac>>

CsvHeader == <<"MAC Address", "IP Address", "AP Name">>
\* save_to_csv writing a row only the first time it occurs
save_to_csv_mut(data) ==
    LET keep[i \in 0..Len(data)] ==
            IF i = 0 THEN <<>>
            ELSE IF \E j \in 1..(i - 1) : data[j] = data[i]
                 THEN keep[i - 1]
                 ELSE Append(keep[i - 1], data[i])
    IN  <<CsvHeader>> \o keep[Len(data)]

\* save_to_csv, lines 71-74
save_to_csv(data) == <<CsvHeader>> \o data

-----------------------------------------------------------------------------
(* test.py: main, one action per step *)

\* an exception inside the try: control goes to the except clause
Raise(sh) ==
    /\ shells' = sh
    /\ iPc' = "except"

\* lines 79-81
InvConnect ==
    /\ iPc = "connect"
    /\ \/ /\ ssh' = "open"
          /\ printed' = printed \o <<"Connecting to WLC", "Connected successfully">>
          /\ iPc' = "paging"
       \/ \* ssh_connect raises: ssh is never bound
          /\ printed' = Append(printed, "Connecting to WLC")
          /\ iPc' = "except"
          /\ UNCHANGED ssh
    /\ UNCHANGED <<closes, shells, ap_prefix, ap_names, apIdx, mac_ap_pairs,
                   macIdx, client_data, csvFile>>
    /\ UNCHANGED observed
    /\ UNCHANGED <<batchVars, classifyVars, parseVars>>

\* lines 84-85
InvDisablePaging ==
    /\ iPc = "paging"
    /\ \E r \in RunResults :
         IF r = "ok"
         THEN /\ shells' = run_command(shells, PagingCmd, r)
              /\ printed' = Append(printed, "Pagination disabled")
              /\ iPc' = "ap_summary"
         ELSE /\ Raise(run_command(shells, PagingCmd, r))
              /\ UNCHANGED printed
    /\ UNCHANGED <<ssh, closes, ap_prefix, ap_names, apIdx, mac_ap_pairs,
                   macIdx, client_data, csvFile>>
    /\ UNCHANGED observed
    /\ UNCHANGED <<batchVars, classifyVars, parseVars>>

\* lines 88-95
InvGetApNames ==
    /\ iPc = "ap_summary"
    /\ \E r \in RunResults :
         IF r = "ok"
         THEN \E output \in ApSummaryOutputs :
                LET names == parse_ap_names(output, ap_prefix)
                IN  IF names = IndexError
                    THEN /\ Raise(run_command(shells, ApSummaryCmd, r))
                         /\ UNCHANGED <<ap_names, printed>>
                    ELSE /\ shells' = run_command(shells, ApSummaryCmd, r)
                         /\ ap_names' = names
                         /\ IF names = <<>>
                            THEN /\ printed' = Append(printed, "No APs found")
                                 /\ iPc' = "finally"
                            ELSE /\ printed' = Append(printed, "Found APs")
                                 /\ iPc' = "ap_loop"
         ELSE /\ Raise(run_command(shells, ApSummaryCmd, r))
              /\ UNCHANGED <<ap_names, printed>>
    /\ client_data' = <<>>
    /\ apIdx' = 1
    /\ UNCHANGED <<ssh, closes, ap_prefix, mac_ap_pairs, macIdx, csvFile>>
    /\ UNCHANGED observed
    /\ UNCHANGED <<batchVars, classifyVars, parseVars>>

\* lines 96-101
InvApLoop ==
    /\ iPc = "ap_loop"
    /\ \/ /\ apIdx > Len(ap_names)
          /\ iPc' = "save"
          /\ UNCHANGED <<shells, mac_ap_pairs, apIdx, printed, observed>>
       \/ /\ apIdx <= Len(ap_names)
          /\ \E r \in RunResults :
               LET cmd == ClientListCmd(ap_names[apIdx])
               IN  IF r = "ok"
                   THEN \E output \in ClientListOutputs :
                          LET pairs == parse_client_macs(output, ap_names[apIdx])
                          IN  /\ shells' = run_command(shells, cmd, r)
                              /\ mac_ap_pairs' = pairs
                              /\ observed' = observed \o pairs
                              /\ IF pairs = <<>>
                                 THEN /\ printed' = printed \o <<"Processing AP", "No clients found">>
                                      /\ apIdx' = apIdx + 1
                                      /\ iPc' = "ap_loop"
                                 ELSE /\ printed' = Append(printed, "Processing AP")
                                      /\ iPc' = "mac_loop"
                                      /\ UNCHANGED apIdx
                   ELSE /\ Raise(run_command(shells, cmd, r))
                        /\ printed' = Append(printed, "Processing AP")
                        /\ UNCHANGED <<mac_ap_pairs, apIdx, observed>>
    /\ macIdx' = 1
    /\ UNCHANGED <<ssh, closes, ap_prefix, ap_names, client_data, csvFile>>
    /\ UNCHANGED <<batchVars, classifyVars, parseVars>>

\* lines 102-105
InvMacLoop ==
    /\ iPc = "mac_loop"
    /\ \/ /\ macIdx > Len(mac_ap_pairs)
          /\ apIdx' = apIdx + 1
          /\ iPc' = "ap_loop"
          /\ UNCHANGED <<shells, client_data, macIdx, printed>>
       \/ /\ macIdx <= Len(mac_ap_pairs)
          /\ printed' = Append(printed, "Getting details")
          /\ \E r \in RunResults :
               LET mac == mac_ap_pairs[macIdx][1]
                   ap == mac_ap_pairs[macIdx][2]
               IN  IF r = "ok"
                   THEN \E output \in ClientDetailOutputs :
                          /\ shells' = run_command(shells, ClientDetailCmd(mac), r)
                          /\ client_data' =
                                Append(client_data, <<mac, parse_client_ip(output), ap>>)
                          /\ macIdx' = macIdx + 1
                          /\ iPc' = "mac_loop"
                   ELSE /\ Raise(run_command(shells, ClientDetailCmd(mac), r))
                        /\ UNCHANGED <<client_data, macIdx>>
          /\ UNCHANGED apIdx
    /\ UNCHANGED <<ssh, closes, ap_prefix, ap_names, mac_ap_pairs, csvFile>>
    /\ UNCHANGED observed
    /\ UNCHANGED <<batchVars, classifyVars, parseVars>>

\* lines 108-112
InvSave ==
    /\ iPc = "save"
    /\ \/ /\ client_data # <<>>
          /\ csvFile' = save_to_csv(client_data)
          /\ printed' = Append(printed, "Data saved")
          /\ iPc' = "finally"
       \/ \* open or a write raises: the file is absent as before, or cut short
          /\ client_data # <<>>
          /\ \E k \in 0..Len(client_data) :
               csvFile' = IF k = 0 THEN csvFile
                          ELSE SubSeq(save_to_csv(client_data), 1, k)
          /\ iPc' = "except"
          /\ UNCHANGED printed
       \/ /\ client_data = <<>>
          /\ printed' = Append(printed, "No client data to save")
          /\ iPc' = "finally"
          /\ UNCHANGED csvFile
    /\ UNCHANGED <<ssh, closes, shells, ap_prefix, ap_names, apIdx,
                   mac_ap_pairs, macIdx, client_data>>
    /\ UNCHANGED observed
    /\ UNCHANGED <<batchVars, classifyVars, parseVars>>

\* lines 114-115
InvExcept ==
    /\ iPc = "except"
    /\ printed' = Append(printed, "An error occurred")
    /\ iPc' = "finally"
    /\ UNCHANGED <<ssh, closes, shells, ap_prefix, ap_names, apIdx,
                   mac_ap_pairs, macIdx, client_data, csvFile>>
    /\ UNCHANGED observed
    /\ UNCHANGED <<batchVars, classifyVars, parseVars>>

\* a main whose close is the last statement of the try block, with no
\* finally clause: after an exception the connection stays open
InvFinally_mut ==
    /\ iPc = "finally"
    /\ IF "An error occurred" \in Range(printed)
       THEN /\ iPc' = "done"
            /\ UNCHANGED <<ssh, closes, printed>>
       ELSE /\ ssh' = "closed"
            /\ closes' = closes + 1
            /\ printed' = Append(printed, "SSH connection closed")
            /\ iPc' = "done"
    /\ UNCHANGED <<shells, ap_prefix, ap_names, apIdx, mac_ap_pairs, macIdx,
                   client_data, csvFile, observed>>
    /\ UNCHANGED <<batchVars, classifyVars, parseVars>>

\* lines 116-118
InvFinally ==
    /\ iPc = "finally"
    /\ \/ \* ssh was never bound: ssh.close() raises UnboundLocalError
          /\ ssh = "unbound"
          /\ iPc' = "crashed"
          /\ UNCHANGED <<ssh, closes, printed>>
       \/ /\ ssh # "unbound"
          /\ ssh' = "closed"
          /\ closes' = closes + 1
          /\ printed' = Append(printed, "SSH connection closed")
          /\ iPc' = "done"
    /\ UNCHANGED <<shells, ap_prefix, ap_names, apIdx, mac_ap_pairs, macIdx,
                   client_data, csvFile>>
    /\ UNCHANGED observed
    /\ UNCHANGED <<batchVars, classifyVars, parseVars>>

InvStart(p) ==
    /\ iPc = p
    /\ ssh = "unbound"
    /\ closes = 0
    /\ shells = <<>>
    /\ ap_names = <<>>
    /\ apIdx = 1
    /\ mac_ap_pairs = <<>>
    /\ macIdx = 1
    /\ client_data = <<>>
    /\ csvFile = None
    /\ printed = <<>>
    /\ observed = <<>>

\* the inventory is not running
InvIdle == InvStart("idle") /\ ap_prefix = AP_PREFIX

InvInit == InvStart("connect") /\ ap_prefix \in Prefixes

-----------------------------------------------------------------------------
(* test.py: the parsers as functions of the command output *)

\* the lines of a 'show ap summary' output
ApSummaryLines ==
    {HeaderLine, Txt(FALSE, <<>>), ApLine(FALSE, AP1), ApLine(TRUE, AP2),
     ApLine(FALSE, AP3), ApLine(FALSE, AP4),
     Txt(FALSE, <<Word(<<"Other">>), Word(AP1)>>)}

\* the lines of a 'show client ap 802.11a' output
ClientListLines ==
    {HeaderLine, Txt(FALSE, <<>>),
     Txt(FALSE, <<Mac(Mac1), Word(<<"Associated">>)>>),
     Txt(FALSE, <<Mac(Mac2), Mac(Mac1)>>),
     Txt(TRUE, <<Word(<<"client">>), Mac(Mac2)>>),
     Txt(FALSE, <<Word(<<"Foo">>), Ip("10.0.0.1")>>)}

\* the lines of a 'show client detail' output
ClientDetailLines ==
    {Txt(FALSE, <<Word(<<"Foo">>)>>),
     Txt(FALSE, <<Word(<<"Foo">>), Ip("10.0.0.1")>>),
     Txt(FALSE, <<IpMarker, Word(<<"none">>)>>),
     Txt(FALSE, <<IpMarker, Ip("10.0.0.9")>>),
     Txt(TRUE, <<IpMarker, Ip("10.0.0.5"), Word(<<"Status">>), Ip("10.0.0.6")>>),
     Txt(FALSE, <<Word(<<"Gateway">>), Ip("10.0.0.254"), IpMarker, Ip("10.0.0.7")>>)}

ParseStart(p) ==
    /\ pPc = p
    /\ pResult = None

\* no parser is being applied
ParseIdle ==
    /\ ParseStart("idle")
    /\ pFn = None
    /\ pOutput = <<>>
    /\ pArg = None

ParseInit ==
    /\ ParseStart("call")
    /\ \/ /\ pFn = "get_ap_names"
          /\ pOutput \in SeqsUpTo(ApSummaryLines, MaxTextLines)
          /\ pArg \in Prefixes
       \/ /\ pFn = "get_clients_for_ap"
          /\ pOutput \in SeqsUpTo(ClientListLines, MaxTextLines)
          /\ pArg \in {AP1, AP2}
       \/ /\ pFn = "get_client_details"
          /\ pOutput \in SeqsUpTo(ClientDetailLines, MaxTextLines)
          /\ pArg \in {Mac1}

ParseReturn(result) ==
    /\ pPc = "call"
    /\ pResult' = result
    /\ pPc' = "returned"
    /\ UNCHANGED <<pFn, pOutput, pArg, batchVars, classifyVars, invVars>>

\* get_ap_names on the output of run_command, lines 36-42
CallGetApNames ==
    /\ pFn = "get_ap_names"
    /\ ParseReturn(parse_ap_names(pOutput, pArg))

\* get_clients_for_ap on the output of run_command, lines 48-54
CallGetClientsForAp ==
    /\ pFn = "get_clients_for_ap"
    /\ ParseReturn(parse_client_macs(pOutput, pArg))

\* get_client_details on the output of run_command, lines 60-67
CallGetClientDetails ==
    /\ pFn = "get_client_details"
    /\ ParseReturn(parse_client_ip(pOutput))

-----------------------------------------------------------------------------
(* Specifications *)
Init == BatchInit /\ ClassifyIdle /\ InvIdle /\ ParseIdle

Next ==
    \/ ReadIpList
    \/ LoopStep
    \/ GdtConnect
    \/ GdtPrompt
    \/ GdtSend
    \/ GcConnect
    \/ GcSend
    \/ SaveConfig
    \/ UpdateIpList
    \/ SecondRun

Spec == Init /\ [][Next]_vars

InitClassify == BatchIdle /\ ClassifyInit /\ InvIdle /\ ParseIdle

NextClassify == ClassifyCall

SpecClassify == InitClassify /\ [][NextClassify]_vars

InitInv == BatchIdle /\ ClassifyIdle /\ InvInit /\ ParseIdle

NextInv ==
    \/ InvConnect
    \/ InvDisablePaging
    \/ InvGetApNames
    \/ InvApLoop
    \/ InvMacLoop
    \/ InvSave
    \/ InvExcept
    \/ InvFinally

SpecInv == InitInv /\ [][NextInv]_vars

InitParse == BatchIdle /\ ClassifyIdle /\ InvIdle /\ ParseInit

NextParse ==
    \/ CallGetApNames
    \/ CallGetClientsForAp
    \/ CallGetClientDetails

SpecParse == InitParse /\ [][NextParse]_vars

-----------------------------------------------------------------------------
(* Vocabulary of the claims about the batch *)

\* an entry that does not parse as an address, stated apart from validate_ip
NotAnAddress(e) == ~(Len(e) = 4 /\ \A i \in DOMAIN e : e[i] >= 0 /\ e[i] <= 255)

\* lines for address a appended to the failure log during this run
FailLines(a) ==
    Cardinality({i \in (failMark + 1)..Len(failedFile) : failedFile[i] = a})

\* appends to the failure log for a that failed in this run (an error logged)
FailedAppends(a) ==
    Cardinality({i \in DOMAIN log :
                    log[i] = LogLine("ERROR", "failed to write failed file", a)})

\* entries of ip_list equal to a that the loop is done with
Processed(a) ==
    Cardinality({i \in DOMAIN ip_list : i < idx /\ outcome[i] # "pending" /\ ip_list[i] = a})

Distinct(s) == \A i, j \in DOMAIN s : s[i] = s[j] => i = j

\* the entries of ip_list whose processing ended in "success", in input order
RECURSIVE SucceededFrom(_)
SucceededFrom(i) ==
    IF i > Len(ip_list) THEN <<>>
    ELSE IF outcome[i] = "success"
         THEN <<ip_list[i]>> \o SucceededFrom(i + 1)
         ELSE SucceededFrom(i + 1)

AsLines(ips) == [i \in DOMAIN ips |-> Line(FALSE, ips[i])]

\* update_ip_list reported success: its INFO line is the last of the log
RewriteDone == pc = "done" /\ log[Len(log)] = LogLine("INFO", "updated ip list", <<>>)

Attempts(a) == {i \in DOMAIN connLog : connLog[i].ip = a}

-----------------------------------------------------------------------------
(* C1 *)

\* C1: when a run has reached the final rewrite, every address of the input
\* list is either in the successful set with no failure-log line of this run,
\* or not in it with exactly one failure-log line of this run.  Stated on the
\* runs most favourable to the claim: the addresses are distinct and no
\* append to the failure log itself failed.  The code violates it: a prompt
\* without '>' or '#', an unparsed 'show version' output, an empty
\* configuration and a failed save all skip the address without a line.
C1_ExactlyOneOutcome ==
    (pc = "done" /\ Distinct(ip_list)
        /\ \A a \in Range(ip_list) : FailedAppends(a) = 0)
    => \A a \in Range(ip_list) :
          \/ a \in Range(successful_ips) /\ FailLines(a) = 0
          \/ a \notin Range(successful_ips) /\ FailLines(a) = 1

-----------------------------------------------------------------------------
(* C2 *)

-----------------------------------------------------------------------------
(* C3 *)

\* C3 as stated: the second run, started on the rewritten list, opens no
\* connection to an address that succeeded in the first run.  Violated: the
\* rewritten list is the list of the first run's successes, so these are
\* exactly the addresses the second run connects to.
C3_NoSuccessReprocessed ==
    run = "second" => \A i \in DOMAIN connLog : connLog[i].ip \notin Range(succ1)

\* C3 as amended: the second run, started on the rewritten list, processes
\* the first run's successes and nothing else: the list it reads is the
\* first run's successful list (or empty, when the file cannot be read), it
\* connects only to addresses that succeeded in the first run, and when it
\* reaches its own rewrite it has connected to each of them.
C3_OnlySuccessesReprocessed ==
    run = "second" =>
        /\ ip_list \in {succ1, <<>>}
        /\ \A i \in DOMAIN connLog : connLog[i].ip \in Range(succ1)
        /\ pc = "done" => \A a \in Range(succ1) : Attempts(a) # {}

\* the second run has finished after connecting to a first-run success, and
\* the first run also had a valid address that failed
C3_Witness ==
    /\ run = "second"
    /\ pc = "done"
    /\ connLog # <<>>
    /\ \E i \in DOMAIN failedFile : i <= failMark /\ ~NotAnAddress(failedFile[i])

-----------------------------------------------------------------------------
(* C4 *)

\* C4: no failure for one address aborts the batch: a run over a non-empty
\* list ends only after every entry was processed and the list was
\* rewritten.  The code violates it: os.makedirs in save_config is outside
\* the try, so a directory that cannot be created ends main with an
\* exception before the later entries and the rewrite.
C4_NoFailureAbortsBatch ==
    (Finished /\ ip_list # <<>>) =>
        /\ pc = "done"
        /\ \A i \in DOMAIN outcome : outcome[i] \notin {"pending", "crash"}

-----------------------------------------------------------------------------
(* C5 *)

\* C5 as stated: every processed entry that is no address has one
\* failure-log line of this run, and no connection was attempted for it.
\* Violated when the append to the failure log fails: the error is logged
\* and no line is written.
C5_InvalidEntryLoggedOnce ==
    \A a \in Range(ip_list) :
        NotAnAddress(a) => FailLines(a) = Processed(a) /\ Attempts(a) = {}

\* C5 as amended: every processed entry that is no address is recorded once,
\* by a failure-log line or, when the append to the failure log fails, by
\* the logged error of that append, and no connection is attempted for it.
C5_InvalidEntryRecordedOnce ==
    \A a \in Range(ip_list) :
        NotAnAddress(a) =>
            /\ FailLines(a) + FailedAppends(a) = Processed(a)
            /\ Attempts(a) = {}

\* an invalid entry was processed and has its failure-log line, and a
\* connection was made for another entry
C5_Witness ==
    /\ \E a \in Range(ip_list) :
          NotAnAddress(a) /\ Processed(a) = 1 /\ FailLines(a) = 1
    /\ connLog # <<>>

-----------------------------------------------------------------------------
(* C6 *)

\* C6: when the list read holds no valid address (it is empty, or every
\* entry fails validation), the run never attempts a connection, never ends
\* by an exception, and has logged an error by the time it ends.
C6_NoValidAddressNoConnection ==
    (pc # "start" /\ \A i \in DOMAIN ip_list : NotAnAddress(ip_list[i])) =>
        /\ connLog = <<>>
        /\ pc \in {"loop", "update", "returned", "done"}
        /\ Finished => \E i \in DOMAIN log : log[i][1] = "ERROR"

\* a run over a list of two invalid entries has ended
C6_Witness ==
    /\ pc = "done"
    /\ Len(ip_list) = 2
    /\ \A i \in DOMAIN ip_list : NotAnAddress(ip_list[i])

-----------------------------------------------------------------------------
(* C10 *)

\* C10: at most one session is open at any time; none is open when a
\* connection is about to be attempted, when the loop moves to the next
\* entry or when the run ends; an open session belongs to the entry being
\* processed, and every command sent on a session was sent for the address
\* the session was opened to.
C10_OneSessionAtATime ==
    /\ Cardinality(OpenSessions) <= 1
    /\ pc \notin {"gdt_prompt", "gdt_send", "gc_send"} => OpenSessions = {}
    /\ \A i \in OpenSessions : i = Len(connLog) /\ connLog[i].ip = CurIp
    /\ \A i \in DOMAIN connLog :
          \A j \in DOMAIN connLog[i].cmds : connLog[i].cmds[j][2] = connLog[i].ip

\* a session for a second address is open after both sessions of the first
\* address were closed, the second of them by an exception
C10_Witness ==
    /\ Len(connLog) = 3
    /\ connLog[1].state = "closed" /\ connLog[2].state = "closed"
    /\ connLog[2].ip = connLog[1].ip
    /\ \E i \in DOMAIN log :
          log[i] = LogLine("ERROR", "failed to retrieve config", connLog[2].ip)
    /\ connLog[3].state = "open"
    /\ connLog[3].ip # connLog[1].ip

-----------------------------------------------------------------------------
(* Vocabulary of the claims about classification *)

\* the prompt ends in a shell-indicating character: the session is
\* authenticated
EndsInShellChar(p) == p # <<>> /\ p[Len(p)] \in {">", "#"}

\* everything the discovery output holds, lowered: the raw text, or the
\* version and hardware fields of the first parsed record
CombinedText(o) ==
    Lower(o.text) \cup
        (IF o.recs # <<>>
         THEN Lower(o.recs[1].version) \cup Lower(o.recs[1].hardware)
         ELSE {})

Occurs(sigs, t) == sigs \cap t # {}

\* the type of the highest-precedence signature occurring in t
TypeByPrecedence(t) ==
    IF Occurs({"nexus", "nx-os"}, t) THEN "cisco_nxos"
    ELSE IF Occurs({"wlc", "aireos"}, t) THEN "cisco_wlc"
    ELSE IF Occurs({"fibre channel", "mds"}, t) THEN "cisco_mds"
    ELSE IF Occurs({"juniper", "junos"}, t) THEN "juniper_junos"
    ELSE "cisco_ios"

-----------------------------------------------------------------------------
(* C7 *)

\* C7: for every discovery output of an authenticated session in which a
\* platform signature occurs, get_device_type returns the type of the
\* highest-precedence signature that occurs anywhere in the combined lowered
\* output (nxos > wlc > mds > junos).  The code violates it: an output that is not a non-empty list of
\* parsed records yields None whatever it contains, and in a parsed record
\* each signature is looked for in one field only ('nx-os', 'aireos', 'junos'
\* in version; 'nexus', 'wlc', 'fibre channel', 'mds', 'juniper' in hardware).
C7_PrecedenceOverCombinedOutput ==
    (/\ cPc = "returned"
     /\ EndsInShellChar(cPrompt)
     /\ TypeByPrecedence(CombinedText(cOutput)) # "cisco_ios")
    => cResult = TypeByPrecedence(CombinedText(cOutput))

-----------------------------------------------------------------------------
(* C8 *)

\* C8: whenever the session is authenticated and the discovery output,
\* whatever its shape, holds none of the nxos/wlc/mds/junos signatures,
\* get_device_type returns cisco_ios.  The code violates it: raw text, an
\* empty string and an empty list make the function fall off its end and
\* return None.
C8_FallbackIsIos ==
    (/\ cPc = "returned"
     /\ EndsInShellChar(cPrompt)
     /\ TypeByPrecedence(CombinedText(cOutput)) = "cisco_ios")
    => cResult = "cisco_ios"

-----------------------------------------------------------------------------
(* C9 *)

IsDataCmd(c) ==
    c[1] \in {"show ap summary", "show client ap 802.11a", "show client detail"}

\* C9: on every shell channel that carries a data-retrieval command,
\* 'config paging disable' was the first command sent.  The code violates
\* it: run_command opens a new channel with invoke_shell() for every command,
\* so the channel of a data-retrieval command never carried the
\* pagination-disable command.
C9_PagingDisabledFirstOnSession ==
    \A i \in DOMAIN shells :
        (\E j \in DOMAIN shells[i] : IsDataCmd(shells[i][j]))
        => shells[i][1] = PagingCmd

-----------------------------------------------------------------------------
(* C11 *)

\* C11: no exception leaves the inventory's main: every transport error,
\* a failed initial connect included, ends in a normal return.  The code
\* violates it: when ssh_connect raises, ssh was never bound, and the
\* ssh.close() of the finally clause raises UnboundLocalError out of main.
C11_NoExceptionEscapesMain == iPc # "crashed"


-----------------------------------------------------------------------------
(* C12 *)
\* the lines of an output that contain the marker "IP Address"
MarkerLines(o) == {i \in DOMAIN o : IpMarker \in Range(o[i].toks)}
\* the positions of the dotted quads of a line
DottedQuads(l) == {t \in DOMAIN l.toks : l.toks[t].k = "ip"}
Least(S) == CHOOSE m \in S : \A n \in S : m <= n
DetailsReturned == pPc = "returned" /\ pFn = "get_client_details"

\* C12: get_client_details returns "Unknown" when no line contains the
\* marker "IP Address"; otherwise only the first marker line counts, and the
\* result is the first dotted quad of that line, or "Unknown" when that line
\* has none; later marker lines are never consulted.
C12_FirstMarkerLineDecides ==
    DetailsReturned =>
        IF MarkerLines(pOutput) = {}
        THEN pResult = Unknown
        ELSE LET l == pOutput[Least(MarkerLines(pOutput))]
             IN  IF DottedQuads(l) = {}
                 THEN pResult = Unknown
                 ELSE pResult = l.toks[Least(DottedQuads(l))].s[1]

\* the first marker line has no address and a later marker line has one
C12_Witness ==
    /\ DetailsReturned
    /\ pResult = Unknown
    /\ MarkerLines(pOutput) # {}
    /\ DottedQuads(pOutput[Least(MarkerLines(pOutput))]) = {}
    /\ \E i \in MarkerLines(pOutput) : DottedQuads(pOutput[i]) # {}

-----------------------------------------------------------------------------
(* C13 *)
ApNamesReturned == pPc = "returned" /\ pFn = "get_ap_names"

\* the lines whose leading token starts with the prefix, as a literal string
PrefixedLines(o, prefix) ==
    {i \in DOMAIN o : o[i].toks # <<>> /\ StartsWith(o[i].toks[1].s, prefix)}

\* the k-th smallest member of a set of positions
RECURSIVE Nth(_, _)
Nth(S, k) == IF k = 1 THEN Least(S) ELSE Nth(S \ {Least(S)}, k - 1)

\* C13: for every output and prefix, get_ap_names returns, in line order,
\* exactly the leading token of each line whose leading token starts with the
\* prefix (anchored at the start of the line), and nothing for another line.
\* The code violates it: re.match() reads the prefix as a regular expression,
\* so BB4E.FL4 also selects BB4ExFL4_AP1, and the empty prefix matches a
\* blank line, on which line.split()[0] raises IndexError.
C13_LeadingTokenOfPrefixedLines ==
    ApNamesReturned =>
        LET P == PrefixedLines(pOutput, pArg)
        IN  /\ pResult # IndexError
            /\ Len(pResult) = Cardinality(P)
            /\ \A k \in 1..Cardinality(P) : pResult[k] = pOutput[Nth(P, k)].toks[1].s

\* C13, for a prefix that is neither empty nor uses regular-expression
\* syntax: the result is as claimed
C13_LiteralPrefix ==
    (ApNamesReturned /\ pArg # <<>> /\ "." \notin Range(pArg)) =>
        LET P == PrefixedLines(pOutput, pArg)
        IN  /\ pResult # IndexError
            /\ Len(pResult) = Cardinality(P)
            /\ \A k \in 1..Cardinality(P) : pResult[k] = pOutput[Nth(P, k)].toks[1].s

-----------------------------------------------------------------------------
(* C14 *)
ClientsReturned == pPc = "returned" /\ pFn = "get_clients_for_ap"

\* the positions of the MAC addresses of a line
MacsOf(l) == {t \in DOMAIN l.toks : l.toks[t].k = "mac"}
\* the lines that contain a MAC address
MacLines(o) == {i \in DOMAIN o : MacsOf(o[i]) # {}}

\* C14: get_clients_for_ap returns exactly one (MAC, AP name) pair for each
\* line that contains a colon-separated six-octet pattern, made of the first
\* match on that line, in line order: never more than one pair per line, and
\* none for a line without a match.
C14_OnePairPerMacLine ==
    ClientsReturned =>
        LET L == MacLines(pOutput)
        IN  /\ Len(pResult) = Cardinality(L)
            /\ \A k \in 1..Cardinality(L) :
                  LET l == pOutput[Nth(L, k)]
                  IN  pResult[k] = <<l.toks[Least(MacsOf(l))].s[1], pArg>>

\* a line with two MAC addresses gave one pair, and a line without gave none
C14_Witness ==
    /\ ClientsReturned
    /\ Len(pOutput) = 2
    /\ Cardinality(MacsOf(pOutput[1])) = 2
    /\ MacsOf(pOutput[2]) = {}
    /\ pResult = <<<<Mac2, pArg>>>>

-----------------------------------------------------------------------------
(* C15 *)
\* main returned and its except clause never ran
FinishedWithoutError == iPc = "done" /\ "An error occurred" \notin Range(printed)

\* the addresses a 'show client detail' output can hold
DetailAddresses ==
    {a \in {"10.0.0.1", "10.0.0.5", "10.0.0.6", "10.0.0.9"} :
        \E o \in ClientDetailOutputs : \E i \in DOMAIN o :
            \E t \in DottedQuads(o[i]) : o[i].toks[t].s[1] = a}

\* the file is the header row, then one row (MAC, IP or "Unknown", AP name)
\* for each observed client, in the order of discovery
CsvListsObserved ==
    /\ csvFile # None
    /\ Len(csvFile) = Len(observed) + 1
    /\ csvFile[1] = CsvHeader
    /\ \A k \in DOMAIN observed :
          /\ csvFile[k + 1][1] = observed[k][1]
          /\ csvFile[k + 1][3] = observed[k][2]
          /\ csvFile[k + 1][2] \in DetailAddresses \cup {Unknown}

\* C15: whenever the inventory run finishes without an error, the CSV file
\* is the header row followed by exactly one row per observed client, in
\* discovery order, duplicates retained; also when no client was observed.
C15_CsvAlwaysWritten == FinishedWithoutError => CsvListsObserved

\* C15, amended: whenever the run finishes without an error and at least one
\* client was observed, the CSV file is the header row followed by exactly
\* one row per observed client, in discovery order, duplicates retained; when
\* no client was observed no CSV file is written.
C15_CsvWrittenWhenClients ==
    FinishedWithoutError =>
        IF observed = <<>> THEN csvFile = None ELSE CsvListsObserved

\* a run that wrote the same client twice
C15_Witness ==
    /\ FinishedWithoutError
    /\ csvFile # None
    /\ \E i, j \in 2..Len(csvFile) : i # j /\ csvFile[i] = csvFile[j]

-----------------------------------------------------------------------------
(* C16 *)
\* C16: get_device_type fails, returning no type and sending no discovery
\* command, whenever the prompt does not end in '>' or '#', a prompt that
\* holds such a character elsewhere included.  The code violates it: line 66
\* tests whether the character occurs in the prompt, so a prompt such as
\* "#sw" is taken for a shell prompt, 'show version' is sent and a type is
\* returned.
C16_NoSuffixNoClassification ==
    (cPc = "returned" /\ ~EndsInShellChar(cPrompt)) =>
        (cResult = None /\ cCmds = <<>>)

-----------------------------------------------------------------------------
(* C17 *)
\* the connections of this run to address a, by purpose
ClassifyAttempts(a) == {i \in Attempts(a) : connLog[i].kind = "autodetect"}
ConfigAttempts(a) == {i \in Attempts(a) : connLog[i].kind # "autodetect"}
\* the position of an address in a list of distinct addresses
PositionOf(a) == CHOOSE i \in DOMAIN ip_list : ip_list[i] = a

\* C17: within one run over distinct addresses nothing is retried: an address
\* gets at most one classification connection and at most one
\* configuration-retrieval connection, and once a stage has failed for an
\* address no further connection to it is made in that run.
C17_NothingRetried ==
    Distinct(ip_list) =>
        /\ \A i \in DOMAIN connLog : connLog[i].ip \in Range(ip_list)
        /\ \A a \in Range(ip_list) :
              /\ Cardinality(ClassifyAttempts(a)) <= 1
              /\ Cardinality(ConfigAttempts(a)) <= 1
              \* a refused connection is the last one to its address
              /\ \A i \in Attempts(a) :
                    connLog[i].state = "refused" => \A j \in Attempts(a) : j <= i
        \* the connections follow the order of the list: none goes back to an
        \* address the loop has left
        /\ \A i, j \in DOMAIN connLog :
              i < j => PositionOf(connLog[i].ip) <= PositionOf(connLog[j].ip)
        /\ \A i \in DOMAIN ip_list :
              LET a == ip_list[i]
              IN  /\ outcome[i] = "invalid" => Attempts(a) = {}
                  /\ outcome[i] \in {"classify_error", "classify_none"} =>
                        ConfigAttempts(a) = {}
                  /\ outcome[i] = "pending" /\ i # idx => Attempts(a) = {}

\* a run over two distinct addresses: retrieval failed for the first, which
\* got two connections, and the second succeeded
C17_Witness ==
    /\ pc = "done"
    /\ Distinct(ip_list)
    /\ outcome = <<"retrieve_error", "success">>
    /\ Len(connLog) = 4
    /\ Cardinality(Attempts(ip_list[1])) = 2

-----------------------------------------------------------------------------
(* C18 *)
\* C18: an address is in the successful set only if its classification
\* returned a device type, a non-empty configuration was retrieved from it,
\* and that configuration was written to an output file for that address
\* with save_config reporting success.
C18_SuccessMeansAllStagesPassed ==
    \A a \in Range(successful_ips) :
        \* the classification session sent 'show version' and returned a type,
        \* with which the retrieval session was opened
        /\ \E i \in ClassifyAttempts(a) :
              /\ connLog[i].state = "closed"
              /\ connLog[i].cmds = <<<<"show version", a>>>>
        /\ \E j \in ConfigAttempts(a) :
              /\ connLog[j].kind \in DOMAIN config_commands
              /\ connLog[j].state = "closed"
              /\ connLog[j].cmds = <<<<config_commands[connLog[j].kind], a>>>>
        \* the file of the address holds a non-empty configuration
        /\ \E f \in cfgFiles : f[1] = a /\ f[2] \notin {"", None}
        /\ \A f \in cfgFiles : f[1] = a => f[2] \notin {"", None}
        /\ LogLine("INFO", "configuration saved", a) \in Range(log)
        /\ \A w \in {"failed to detect device type", "failed to retrieve config"} :
              Distinct(ip_list) => LogLine("ERROR", w, a) \notin Range(log)

\* a run with one address in the successful set and one whose configuration
\* came back empty
C18_Witness ==
    /\ pc = "done"
    /\ Len(successful_ips) = 1
    /\ \E i \in DOMAIN outcome : outcome[i] = "empty_config"

-----------------------------------------------------------------------------
(* C19 *)
\* what a run can write: the address list, the failure log, the output
\* directory and its files
Files == <<ipFile, failedFile, outDirExists, cfgFiles>>

\* C19: when reading the address list yields no entries (the file is
\* missing, unreadable or holds only blank lines), the run returns at once:
\* it leaves the address list, the failure log and the output directory as
\* they were, the list is not truncated, and no connection is opened.
C19_EmptyReadChangesNothing ==
    [][/\ (pc = "start" /\ ip_list' = <<>>) =>
            (pc' = "returned" /\ UNCHANGED Files /\ connLog' = <<>>)
       /\ pc = "returned" => (UNCHANGED Files /\ connLog' = <<>>)]_vars

\* a run returned on a list file that is not empty: its lines are blank, or
\* it could not be read
C19_Witness ==
    /\ pc = "returned"
    /\ run = "first"
    /\ ipFile # <<>>
    /\ ip_list = <<>>
    /\ connLog = <<>>

-----------------------------------------------------------------------------
(* C20 *)
\* ssh_connect returned: the connection was established
Established == "Connected successfully" \in Range(printed)
\* main is over: it returned, or an exception left it
MainOver == iPc \in {"done", "crashed"}

\* C20: once the SSH connection is established it is closed exactly once
\* before main returns, on every exit path: no AP found, no client found,
\* the CSV file written, or an exception raised by a command or by the
\* writing of the CSV file.
C20_ClosedExactlyOnce ==
    Established =>
        /\ closes <= 1
        /\ ~MainOver => (closes = 0 /\ ssh = "open")
        /\ MainOver => (iPc = "done" /\ closes = 1 /\ ssh = "closed")

\* main returned after an exception that a command raised on the
\* established connection
C20_Witness ==
    /\ Established
    /\ iPc = "done"
    /\ closes = 1
    /\ "An error occurred" \in Range(printed)
    /\ ap_names # <<>>
=============================================================================
